---- MODULE Spec2Model ----
(***************************************************************************)
(* Model of laptop_wifi_priority_service/main.go: the poll loop of main(), *)
(* its ranking comparison, the priority reconciliation loop, the           *)
(* activation step and the no-network backoff.                             *)
(*                                                                         *)
(* A time.Duration is an int64 count of nanoseconds.  The backoff reaches  *)
(* 10^11 ns, beyond the integers TLC computes with, so a Duration is kept  *)
(* as a record [ms, ns] of whole milliseconds and the remaining            *)
(* nanoseconds (0 .. NsPerMs-1); its value is ms * NsPerMs + ns.           *)
(***************************************************************************)
EXTENDS Integers, Sequences, FiniteSets, TLC

VARIABLES
    pc,                 \* position of main() inside its for-loop
    site,               \* the surroundings of this run, one of Sites
    noNetExtra_sleep,   \* main.go:276, the backoff delay (a Duration)
    known,              \* main.go:282, SSIDs getKnownNetworks returned this cycle
    avail,              \* main.go:283, the observations, marked and sorted
    scanned,            \* avail as getWifiNetworks returned it, before the sort
    current,            \* main.go:284, SSID of the active connection
    saved,              \* the saved profiles: every property but the priority
    priority,           \* persisted connection.autoconnect-priority per profile
    calls,              \* the calls of main.go:278-284 made in this cycle, in order
    looked,             \* main.go:336, the paths found for the best SSID
    seen,               \* main.go:342-357, the devices that saw the best SSID
    writes,             \* setWiFiPriority's per-profile writes of this cycle
    activations,        \* ActivateWirelessConnection calls of this cycle
    slept,              \* time.Sleep calls of this cycle, in order
    backoffs,           \* the last two backoff sleeps of the current empty run
    emptyRun,           \* consecutive empty cycles so far (saturating)
    cycleStartDelay,    \* noNetExtra_sleep as it was when this cycle began
    faults              \* the external calls that failed in this cycle

vars == <<pc, site, noNetExtra_sleep, known, avail, scanned, current, saved,
          priority, calls, looked, seen, writes, activations, slept, backoffs,
          emptyRun, cycleStartDelay, faults>>

----------------------------------------------------------------------------
(* Bounds of the model *)

\* most access points one scan returns
MaxAPs == 3
\* emptyRun counts 1, 2, ... and saturates here
RunCap == 3
\* most access points one scan returns at a flaky site
FlakyAPs == 2
\* most access points one scan returns at a quiet site
QuietAPs == 1
\* most failures of external calls in one cycle at a flaky site
MaxFaults == 1
\* most consecutive empty cycles at a flaky site
FlakyEmptyRuns == 1
\* most access points one scan returns at a mesh site
MeshAPs == 3

----------------------------------------------------------------------------
(* time.Duration *)

NsPerMs == 1000000

Dur(ms, ns) == [ms |-> ms, ns |-> ns]

Millisecond(n) == Dur(n, 0)

Second(n) == Dur(n * 1000, 0)

\* a < b on Durations
DurLess(a, b) == a.ms < b.ms \/ (a.ms = b.ms /\ a.ns < b.ns)

LoopIntervalSeconds == 30

LoopInterval == Second(LoopIntervalSeconds)

MinBackoffMs == 500

MaxBackoffSeconds == 100

\* time.Duration(float64(d) * 1.2): the product truncated to whole nanoseconds.
\* For 0 <= d <= 10^11 the float64 product truncates to d + d \div 5 (the
\* float64 nearest 1.2 is below 1.2 by less than half an ulp of any such
\* product), which is computed here on the two limbs.
MulOnePointTwo(d) ==
    LET fifthMs == d.ms \div 5
        fifthNs == ((d.ms % 5) * NsPerMs + d.ns) \div 5
        sumNs   == d.ns + fifthNs
    IN  Dur(d.ms + fifthMs + (sumNs \div NsPerMs), sumNs % NsPerMs)

Zero == Dur(0, 0)

\* variant of resetDelay: the reset is missing
resetDelayKeep(d) == d

\* main.go:332: noNetExtra_sleep = 0
resetDelay(d) == Zero

\* variant of growDelay: the multiplication only when the floor did not apply
growDelayElse(d) ==
    LET grown == IF DurLess(d, Millisecond(MinBackoffMs))
                 THEN Millisecond(MinBackoffMs)
                 ELSE MulOnePointTwo(d)
    IN  IF DurLess(Second(MaxBackoffSeconds), grown)
        THEN Second(MaxBackoffSeconds) ELSE grown

\* variant of growDelay: the cap is missing
growDelayNoCap(d) ==
    LET floored == IF DurLess(d, Millisecond(MinBackoffMs))
                   THEN Millisecond(MinBackoffMs) ELSE d
    IN  MulOnePointTwo(floored)

\* main.go:369-377: the growth applied after the backoff sleep.  The floor
\* of 500 ms is followed by the multiplication unconditionally.
growDelay(d) ==
    LET floored == IF DurLess(d, Millisecond(MinBackoffMs))
                   THEN Millisecond(MinBackoffMs) ELSE d
        grown   == MulOnePointTwo(floored)
    IN  IF DurLess(Second(MaxBackoffSeconds), grown)
        THEN Second(MaxBackoffSeconds) ELSE grown

----------------------------------------------------------------------------
(* Strings: an SSID is a sequence of one-character strings *)

UpperAlphabet == <<"A","B","C","D","E","F","G","H","I","J","K","L","M",
                   "N","O","P","Q","R","S","T","U","V","W","X","Y","Z">>

LowerAlphabet == <<"a","b","c","d","e","f","g","h","i","j","k","l","m",
                   "n","o","p","q","r","s","t","u","v","w","x","y","z">>

\* the lower-case letter of every upper-case letter
UpperToLower ==
    [c \in { UpperAlphabet[i] : i \in 1..Len(UpperAlphabet) } |->
        LowerAlphabet[CHOOSE i \in 1..Len(UpperAlphabet) : UpperAlphabet[i] = c]]

\* strings.ToLower on one character
LowerChar(c) == IF c \in DOMAIN UpperToLower THEN UpperToLower[c] ELSE c

\* strings.ToLower
ToLower(s) == [i \in 1..Len(s) |-> LowerChar(s[i])]

\* strings.Contains
Contains(s, sub) ==
    \E i \in 0..(Len(s) - Len(sub)) : \A k \in 1..Len(sub) : s[i + k] = sub[k]

\* variant of getFrequencyPriority: the name is matched as written
getFrequencyPriorityNoLower(ssid) ==
    LET l == ssid IN
    IF Contains(l, <<"6","g","h","z">>) \/ Contains(l, <<"6","g">>) THEN 60
    ELSE IF Contains(l, <<"5","g","h","z">>) \/ Contains(l, <<"5","g">>) THEN 50
    ELSE IF \/ Contains(l, <<"2",".","4","g","h","z">>)
            \/ Contains(l, <<"2","g","h","z">>)
            \/ Contains(l, <<"2","g">>) THEN 24
    ELSE 0

\* main.go:220-232
getFrequencyPriority(ssid) ==
    LET l == ToLower(ssid) IN
    IF Contains(l, <<"6","g","h","z">>) \/ Contains(l, <<"6","g">>) THEN 60
    ELSE IF Contains(l, <<"5","g","h","z">>) \/ Contains(l, <<"5","g">>) THEN 50
    ELSE IF \/ Contains(l, <<"2",".","4","g","h","z">>)
            \/ Contains(l, <<"2","g","h","z">>)
            \/ Contains(l, <<"2","g">>) THEN 24
    ELSE 0

----------------------------------------------------------------------------
(* The host network-management service: saved profiles and access points *)

NoSsid == <<>>

SsidNet == <<"n","e","t">>

SsidH5G == <<"H","-","5","G">>

SsidX2g == <<"x","2","g">>

Ssid5G6g == <<"5","G","6","g">>

\* Saved connection profiles, in the order ListConnections returns them, as
\* they are when the program starts.  Two saved entries carry SsidNet; the
\* second was never used (no connection.timestamp); profile 4 is a wired
\* profile.
Profiles == 1..4

ProfileType(p) == IF p = 4 THEN "802-3-ethernet" ELSE "802-11-wireless"

ProfileSsid(p) == IF p \in {1, 2} THEN SsidNet ELSE IF p = 3 THEN SsidH5G ELSE NoSsid

ProfileHasTimestamp(p) == p \in {1, 3, 4}

\* the saved wireless profiles
WirelessProfiles == { p \in Profiles : ProfileType(p) = "802-11-wireless" }

\* the saved profile whose settings can come back without the ssid field
NoSsidProfiles == { 3 }

\* the settings of the saved profiles when the program starts, the
\* autoconnect-priority apart
SavedAtStart ==
    [p \in Profiles |-> [type |-> ProfileType(p), ssid |-> ProfileSsid(p),
                         timestamp |-> ProfileHasTimestamp(p)]]

\* The access points a scan can return: [ssid, frequency, strength].  The
\* frequency is what the radio reports, whatever the SSID's text says.
APKinds ==
    { [ssid |-> SsidNet,  frequency |-> 2412, strength |-> 80],
      [ssid |-> SsidNet,  frequency |-> 5180, strength |-> 80],
      [ssid |-> SsidH5G,  frequency |-> 2437, strength |-> 40],
      [ssid |-> SsidX2g,  frequency |-> 5955, strength |-> 90],
      [ssid |-> Ssid5G6g, frequency |-> 2412, strength |-> 90] }

\* every list of at most n access points of the given kinds
RECURSIVE APLists(_, _)
APLists(kinds, n) ==
    IF n = 0 THEN { <<>> }
    ELSE LET shorter == APLists(kinds, n - 1)
         IN  shorter \cup { Append(l, k) : l \in { s \in shorter : Len(s) = n - 1 },
                                            k \in kinds }

\* The runs explored differ in the surroundings of the machine:
\*   busy   up to MaxAPs access points of every kind in view, at least one
\*          in every scan, no external call fails;
\*   flaky  up to FlakyAPs access points of two kinds, up to MaxFaults
\*          external calls fail per cycle, at most FlakyEmptyRuns
\*          consecutive empty cycles;
\*   quiet  up to QuietAPs access points of one kind, no external call
\*          fails, any number of consecutive empty cycles;
\*   mesh   up to MeshAPs access points, at least one in every scan: one
\*          saved network served by a near and a far access point, another
\*          saved network in between; no external call fails.
Sites == { "busy", "flaky", "quiet", "mesh" }

FlakyKinds == { k \in APKinds : k.ssid \in {SsidNet, SsidX2g} /\ k.frequency # 5180 }

QuietKinds == { k \in APKinds : k.ssid = SsidH5G }

MeshKinds ==
    { [ssid |-> SsidNet, frequency |-> 2412, strength |-> 80],
      [ssid |-> SsidH5G, frequency |-> 2437, strength |-> 40],
      [ssid |-> SsidNet, frequency |-> 5180, strength |-> 20] }

BusyLists == APLists(APKinds, MaxAPs) \ { <<>> }

FlakyLists == APLists(FlakyKinds, FlakyAPs)

QuietLists == APLists(QuietKinds, QuietAPs)

MeshLists == APLists(MeshKinds, MeshAPs) \ { <<>> }

\* the access-point lists a scan can return at a site
SiteLists(s) ==
    IF s = "busy" THEN BusyLists
    ELSE IF s = "flaky" THEN FlakyLists
    ELSE IF s = "mesh" THEN MeshLists
    ELSE QuietLists

\* most external calls that fail in one cycle at a site
SiteFaults(s) == IF s = "flaky" THEN MaxFaults ELSE 0

\* whether one more empty cycle can follow n consecutive empty cycles
SiteAllowsEmpty(s, n) ==
    IF s \in {"busy", "mesh"} THEN FALSE
    ELSE IF s = "flaky" THEN n < FlakyEmptyRuns
    ELSE TRUE

\* SSIDs the active connection can have at the time of the read
CurrentSsids == { NoSsid, SsidNet }

\* wireless interfaces in the order GetDevices returns them
WifiDevices == 1..2

\* every subset of S with at most k elements
RECURSIVE SubsetsUpTo(_, _)
SubsetsUpTo(S, k) ==
    IF k = 0 THEN { {} }
    ELSE LET smaller == SubsetsUpTo(S, k - 1)
         IN  smaller \cup { T \cup {x} : T \in smaller, x \in S }

----------------------------------------------------------------------------
(* Directory reads *)

\* main.go:42-67.  ok: Settings and ListConnections succeeded; unreadable:
\* the profiles whose GetSettings failed (skipped).  The list is only used
\* for membership, so it is kept as a set.
getKnownNetworks(ok, unreadable) ==
    IF ~ok THEN {}
    ELSE { saved[p].ssid : p \in { q \in DOMAIN saved \ unreadable :
                                     /\ saved[q].type = "802-11-wireless"
                                     /\ saved[q].timestamp } }

\* main.go:58 and main.go:211: cs["802-11-wireless"]["ssid"].([]uint8) is a
\* type assertion without the ok form, so it panics when the settings read
\* for a wireless profile hold no ssid.  noSsid: the profiles whose settings
\* came back without the ssid field; unreadable: those whose read failed;
\* store: the saved profiles at the time of the reads.
ssidAssertionPanics(store, noSsid, unreadable) ==
    \E p \in (DOMAIN store \cap noSsid) \ unreadable :
        store[p].type = "802-11-wireless"

\* variant of getWifiNetworks: a failure does not empty the result
getWifiNetworksPartial(ok, aps) ==
    [i \in 1..Len(aps) |->
        [ssid |-> aps[i].ssid, frequency |-> aps[i].frequency,
         strength |-> aps[i].strength, isKnown |-> FALSE]]

\* main.go:105-142: isKnown starts false on every observation
getWifiNetworks(ok, aps) ==
    IF ~ok THEN <<>>
    ELSE [i \in 1..Len(aps) |->
            [ssid |-> aps[i].ssid, frequency |-> aps[i].frequency,
             strength |-> aps[i].strength, isKnown |-> FALSE]]

\* main.go:69-103
getCurrentConnection(ok, active) == IF ~ok THEN NoSsid ELSE active

\* main.go:197-218: the paths of the wireless profiles whose SSID is ssid, in
\* ListConnections order; a profile whose settings cannot be read is skipped.
\* store: the saved profiles at the time of the call.
getConnectionsBySSID(store, ssid, unreadable) ==
    SelectSeq([p \in 1..Cardinality(DOMAIN store) |-> p],
              LAMBDA p : /\ p \notin unreadable
                         /\ store[p].type = "802-11-wireless"
                         /\ store[p].ssid = ssid)

----------------------------------------------------------------------------
(* Ranking *)

\* main.go:288-294
markKnown(list, knownSet) ==
    [i \in 1..Len(list) |->
        [list[i] EXCEPT !.isKnown = list[i].isKnown \/ list[i].ssid \in knownSet]]

\* variant of less: isKnown is not compared
lessNoKnown(a, b) ==
    IF a.strength # b.strength THEN a.strength > b.strength
    ELSE getFrequencyPriority(a.ssid) > getFrequencyPriority(b.ssid)

\* variant of less: the band score is compared before the signal strength
lessBandFirst(a, b) ==
    IF a.isKnown # b.isKnown THEN a.isKnown
    ELSE IF getFrequencyPriority(a.ssid) # getFrequencyPriority(b.ssid)
         THEN getFrequencyPriority(a.ssid) > getFrequencyPriority(b.ssid)
         ELSE a.strength > b.strength

\* variant of less: the frequency breaks the last tie
lessFrequencyTie(a, b) ==
    IF a.isKnown # b.isKnown THEN a.isKnown
    ELSE IF a.strength # b.strength THEN a.strength > b.strength
    ELSE IF getFrequencyPriority(a.ssid) # getFrequencyPriority(b.ssid)
         THEN getFrequencyPriority(a.ssid) > getFrequencyPriority(b.ssid)
         ELSE a.frequency > b.frequency

\* main.go:297-316: the less function given to sort.Slice
less(a, b) ==
    IF a.isKnown # b.isKnown THEN a.isKnown
    ELSE IF a.strength # b.strength THEN a.strength > b.strength
    ELSE getFrequencyPriority(a.ssid) > getFrequencyPriority(b.ssid)

\* the orderings of the positions I in which no position comes after one it
\* is before in lt: a first position that no other one is before, then the rest
RECURSIVE SortedOrders(_, _)
SortedOrders(lt, I) ==
    IF I = {} THEN { <<>> }
    ELSE UNION { { <<i>> \o rest : rest \in SortedOrders(lt, I \ {i}) } :
                 i \in { m \in I : \A j \in I : ~lt[j][m] } }

\* sort.Slice(avail, less): "The sort is not guaranteed to be stable", so
\* every ordering of the elements that is sorted by less is an outcome.
sortSlice(list) ==
    LET lt == [i \in 1..Len(list) |-> [j \in 1..Len(list) |-> less(list[i], list[j])]]
    IN  { [k \in 1..Len(list) |-> list[order[k]]] :
            order \in SortedOrders(lt, 1..Len(list)) }

----------------------------------------------------------------------------
(* Priority reconciliation *)

\* GetSettings (main.go:158-170): the settings map of profile p
GetSettings(st, p) ==
    [type |-> st.saved[p].type, ssid |-> st.saved[p].ssid,
     timestamp |-> st.saved[p].timestamp, priority |-> st.priority[p]]

\* variant of updatePriority: the connection group is made anew
updatePriorityFreshGroup(settings, prio) ==
    [settings EXCEPT !.priority = prio, !.timestamp = FALSE]

\* main.go:173-178: the connection group of the map read gets the new
\* autoconnect-priority; every other key of the map stays as read
updatePriority(settings, prio) == [settings EXCEPT !.priority = prio]

\* the Update calls of main.go:181-189: the settings of every profile in
\* written are replaced by the map given for it
Update(st, written, settings) ==
    [st EXCEPT
       !.priority = [p \in Profiles |->
                       IF p \in written THEN settings[p].priority ELSE st.priority[p]],
       !.saved    = [p \in DOMAIN st.saved |->
                       IF p \in written
                       THEN [type |-> settings[p].type, ssid |-> settings[p].ssid,
                             timestamp |-> settings[p].timestamp]
                       ELSE st.saved[p]]]

\* the records of the writes tried for the paths conns
writeLog(conns, prio, entry, F) ==
    [k \in 1..Len(conns) |->
        [entry |-> entry, path |-> conns[k], priority |-> prio,
         ok |-> <<"write", entry, conns[k]>> \notin F]]

\* variant of setWiFiPriority: the value is added to the stored priority
setWiFiPriorityAdd(st, conns, prio, entry, F) ==
    LET written  == { conns[k] : k \in 1..Len(conns) }
        settings == [p \in written |->
                       updatePriority(GetSettings(st, p), st.priority[p] + prio)]
    IN  [Update(st, written, settings) EXCEPT
           !.writes = st.writes \o
                      [k \in 1..Len(conns) |->
                         [entry |-> entry, path |-> conns[k], priority |-> prio,
                          ok |-> TRUE]]]

\* variant of setWiFiPriority: the first failure ends the loop over the paths
setWiFiPriorityBreak(st, conns, prio, entry, F) ==
    IF <<"bus", entry, 0>> \in F THEN st
    ELSE LET failed  == { k \in 1..Len(conns) : <<"write", entry, conns[k]>> \in F }
             tried   == IF failed = {} THEN conns
                        ELSE SubSeq(conns, 1, CHOOSE k \in failed :
                                                \A l \in failed : k <= l)
             written == { tried[k] : k \in 1..Len(tried) } \
                        { conns[k] : k \in failed }
             settings == [p \in written |-> updatePriority(GetSettings(st, p), prio)]
         IN  [Update(st, written, settings) EXCEPT
                !.writes = st.writes \o writeLog(tried, prio, entry, F)]

\* main.go:144-195.  Fails as a whole when the system bus is unreachable;
\* otherwise one read-modify-write per path, and a path whose GetSettings or
\* Update call fails is skipped.  st = [priority, saved, writes, panicked];
\* entry is the 0-based index of the ranked entry the call is made for; F the
\* failures.
setWiFiPriority(st, conns, prio, entry, F) ==
    IF <<"bus", entry, 0>> \in F THEN st
    ELSE LET written  == { conns[k] : k \in { l \in 1..Len(conns) :
                                                <<"write", entry, conns[l]>> \notin F } }
             settings == [p \in written |-> updatePriority(GetSettings(st, p), prio)]
         IN  [Update(st, written, settings) EXCEPT
                !.writes = st.writes \o writeLog(conns, prio, entry, F)]

\* variant of prioOf: the offset of 10 is missing
prioOfNoOffset(n, i) == n - i

\* main.go:326: int32(len(avail) - idx + 10)
prioOf(n, i) == n - i + 10

\* the state the set-priorities loop works on
passState(store, prios) ==
    [saved |-> store, priority |-> prios, writes |-> <<>>, panicked |-> FALSE]

\* main.go:324-328, from the entry with 0-based index i on; the loop ends in
\* a panic when getConnectionsBySSID reads settings without the ssid field
RECURSIVE setPriorities(_, _, _, _)
setPriorities(list, i, st, F) ==
    IF i >= Len(list) THEN st
    ELSE LET ssid       == list[i + 1].ssid
             unreadable == { p \in Profiles : <<"read", i, p>> \in F }
             noSsid     == { p \in Profiles : <<"nossid", i, p>> \in F }
             paths      == getConnectionsBySSID(st.saved, ssid, unreadable)
         IN  IF ssidAssertionPanics(st.saved, noSsid, unreadable)
             THEN [st EXCEPT !.panicked = TRUE]
             ELSE setPriorities(list, i + 1,
                                setWiFiPriority(st, paths, prioOf(Len(list), i), i, F),
                                F)

\* the external calls of the set-priorities loop that can fail
PriorityFaultPoints(list) ==
    UNION { { <<"bus", i, 0>> } \cup
            { <<kind, i, p>> : kind \in {"read", "write"},
                               p \in { q \in Profiles :
                                         /\ ProfileType(q) = "802-11-wireless"
                                         /\ ProfileSsid(q) = list[i + 1].ssid } } \cup
            { <<"nossid", i, p>> : p \in NoSsidProfiles }
            : i \in 0..(Len(list) - 1) }

----------------------------------------------------------------------------
(* The poll loop, main.go:275-383 *)

\* the external calls of the reads that can fail
ScanFaultPoints ==
    { <<"settings", 0, 0>>, <<"scan", 0, 0>>, <<"current", 0, 0>> }
    \cup { <<"profile", 0, p>> : p \in WirelessProfiles }
    \cup { <<"nossid", 0, p>> : p \in NoSsidProfiles }

\* the external calls of the lookup for the best SSID that can fail
LookupFaultPoints(best) ==
    { <<"lookup", 0, p>> : p \in { q \in WirelessProfiles : ProfileSsid(q) = best } }
    \cup { <<"nossidlookup", 0, p>> : p \in NoSsidProfiles }

Init ==
    /\ pc = "scan"
    /\ site \in Sites
    /\ noNetExtra_sleep = Zero
    /\ known = {}
    /\ avail = <<>>
    /\ scanned = <<>>
    /\ current = NoSsid
    /\ saved = SavedAtStart
    /\ priority = [p \in Profiles |-> 0]
    /\ calls = <<>>
    /\ looked = <<>>
    /\ seen = {}
    /\ writes = <<>>
    /\ activations = <<>>
    /\ slept = <<>>
    /\ backoffs = <<>>
    /\ emptyRun = 0
    /\ cycleStartDelay = Zero
    /\ faults = {}

\* main.go:278-316: the three reads, the marking and the sort.  No scan is
\* requested first (main.go:279-280 holds a comment only).  A panic inside
\* getKnownNetworks ends the process.
Scan ==
    /\ pc = "scan"
    /\ \E aps \in SiteLists(site), active \in CurrentSsids,
          F \in SubsetsUpTo(ScanFaultPoints, SiteFaults(site)) :
          LET unreadable == { p \in Profiles : <<"profile", 0, p>> \in F }
              noSsid == { p \in Profiles : <<"nossid", 0, p>> \in F }
              k   == getKnownNetworks(<<"settings", 0, 0>> \notin F, unreadable)
              raw == getWifiNetworks(<<"scan", 0, 0>> \notin F, aps)
          IN  IF <<"settings", 0, 0>> \notin F
                 /\ ssidAssertionPanics(saved, noSsid, unreadable)
              THEN /\ pc' = "panic"
                   /\ calls' = << "getKnownNetworks" >>
                   /\ faults' = F
                   /\ UNCHANGED <<known, scanned, avail, current, writes,
                                  activations, slept>>
              ELSE /\ raw = <<>> => SiteAllowsEmpty(site, emptyRun)
                   /\ known' = k
                   /\ scanned' = raw
                   /\ avail' \in sortSlice(markKnown(raw, k))
                   /\ current' = getCurrentConnection(<<"current", 0, 0>> \notin F,
                                                      active)
                   /\ calls' = << "getKnownNetworks", "getWifiNetworks",
                                  "getCurrentConnection" >>
                   /\ faults' = F
                   /\ pc' = "prio"
                   /\ writes' = <<>>
                   /\ activations' = <<>>
                   /\ slept' = <<>>
    /\ UNCHANGED <<site, noNetExtra_sleep, saved, priority, looked, seen,
                   backoffs, emptyRun, cycleStartDelay>>

\* main.go:323-328: the whole set-priorities loop
SetPriorities ==
    /\ pc = "prio"
    /\ \E F \in SubsetsUpTo(PriorityFaultPoints(avail),
                          SiteFaults(site) - Cardinality(faults)) :
          LET st == setPriorities(avail, 0, passState(saved, priority), F)
          IN  /\ priority' = st.priority
              /\ saved' = st.saved
              /\ writes' = st.writes
              /\ faults' = faults \cup F
              /\ pc' = IF st.panicked THEN "panic"
                       ELSE IF Len(avail) > 0 THEN "connect" ELSE "backoff"
    /\ scanned' = <<>>
    /\ UNCHANGED <<site, noNetExtra_sleep, known, avail, current, calls, looked,
                   seen, activations, slept, backoffs, emptyRun, cycleStartDelay>>

\* variant of activateOn: the last match is activated
activateOnLast(paths, best, sees) ==
    LET devs == SelectSeq([d \in 1..Cardinality(WifiDevices) |-> d],
                          LAMBDA d : sees[d])
    IN  [k \in 1..Len(devs) |->
            [conn |-> paths[Len(paths)], device |-> devs[k], ap |-> best]]

\* main.go:339-362: one ActivateWirelessConnection call per wireless device
\* that sees an access point with the best SSID
activateOn(paths, best, sees) ==
    LET devs == SelectSeq([d \in 1..Cardinality(WifiDevices) |-> d],
                          LAMBDA d : sees[d])
    IN  [k \in 1..Len(devs) |->
            [conn |-> paths[1], device |-> devs[k], ap |-> best]]

\* variant of ConnectToBest: the next cycle starts at once after a connection
\* attempt
ConnectToBestNoSleep ==
    /\ pc = "connect"
    /\ noNetExtra_sleep' = resetDelay(noNetExtra_sleep)
    /\ LET best == avail[1].ssid
           paths == getConnectionsBySSID(saved, best, {})
       IN  IF best # current /\ Len(paths) > 0
           THEN /\ looked' = paths
                /\ seen' = WifiDevices
                /\ activations' = activateOn(paths, best, [d \in WifiDevices |-> TRUE])
                /\ pc' = "scan"
           ELSE /\ UNCHANGED <<looked, seen, activations>>
                /\ pc' = "sleep"
    /\ backoffs' = <<>>
    /\ emptyRun' = 0
    /\ UNCHANGED <<site, known, avail, scanned, current, saved, priority, calls,
                   writes, slept, cycleStartDelay, faults>>

\* main.go:331-364: reset the backoff and connect to the best network.  The
\* result of ActivateWirelessConnection is not read.
ConnectToBest ==
    /\ pc = "connect"
    /\ noNetExtra_sleep' = resetDelay(noNetExtra_sleep)
    /\ LET best == avail[1].ssid IN
       IF best # current
       THEN \E F \in SubsetsUpTo(LookupFaultPoints(best),
                                 SiteFaults(site) - Cardinality(faults)),
               sees \in [WifiDevices -> BOOLEAN] :
               LET unreadable == { p \in Profiles : <<"lookup", 0, p>> \in F }
                   noSsid == { p \in Profiles : <<"nossidlookup", 0, p>> \in F }
                   paths == getConnectionsBySSID(saved, best, unreadable)
               IN  /\ faults' = faults \cup F
                   /\ IF ssidAssertionPanics(saved, noSsid, unreadable)
                      THEN /\ pc' = "panic"
                           /\ UNCHANGED <<looked, seen, activations>>
                      ELSE /\ pc' = "sleep"
                           /\ looked' = paths
                           /\ seen' = IF Len(paths) > 0
                                      THEN { d \in WifiDevices : sees[d] } ELSE {}
                           /\ activations' = IF Len(paths) > 0
                                             THEN activateOn(paths, best, sees)
                                             ELSE <<>>
       ELSE /\ pc' = "sleep"
            /\ UNCHANGED <<looked, seen, activations, faults>>
    /\ backoffs' = <<>>
    /\ emptyRun' = 0
    /\ UNCHANGED <<site, known, avail, scanned, current, saved, priority, calls,
                   writes, slept, cycleStartDelay>>

\* variant of Backoff: the delay grows before the sleep
BackoffGrowFirst ==
    /\ pc = "backoff"
    /\ slept' = Append(slept, growDelay(noNetExtra_sleep))
    /\ noNetExtra_sleep' = growDelay(noNetExtra_sleep)
    /\ backoffs' = IF backoffs = <<>> THEN << noNetExtra_sleep >>
                   ELSE << backoffs[Len(backoffs)], noNetExtra_sleep >>
    /\ emptyRun' = IF emptyRun < RunCap THEN emptyRun + 1 ELSE RunCap
    /\ pc' = "sleep"
    /\ UNCHANGED <<site, known, avail, scanned, current, saved, priority, calls,
                   looked, seen, writes, activations, cycleStartDelay, faults>>

\* main.go:365-378: no networks found
Backoff ==
    /\ pc = "backoff"
    /\ slept' = Append(slept, noNetExtra_sleep)
    /\ noNetExtra_sleep' = growDelay(noNetExtra_sleep)
    /\ backoffs' = IF backoffs = <<>> THEN << noNetExtra_sleep >>
                   ELSE << backoffs[Len(backoffs)], noNetExtra_sleep >>
    /\ emptyRun' = IF emptyRun < RunCap THEN emptyRun + 1 ELSE RunCap
    /\ pc' = "sleep"
    /\ UNCHANGED <<site, known, avail, scanned, current, saved, priority, calls,
                   looked, seen, writes, activations, cycleStartDelay, faults>>

\* main.go:380-382: the fixed sleep that ends every cycle; known, avail and
\* current are scoped to the loop body
Sleep ==
    /\ pc = "sleep"
    /\ slept' = Append(slept, LoopInterval)
    /\ pc' = "scan"
    /\ known' = {}
    /\ avail' = <<>>
    /\ current' = NoSsid
    /\ calls' = <<>>
    /\ looked' = <<>>
    /\ seen' = {}
    /\ writes' = <<>>
    /\ activations' = <<>>
    /\ faults' = {}
    /\ cycleStartDelay' = noNetExtra_sleep
    /\ UNCHANGED <<site, noNetExtra_sleep, scanned, saved, priority, backoffs,
                   emptyRun>>

Next == Scan \/ SetPriorities \/ ConnectToBest \/ Backoff \/ Sleep

Spec == Init /\ [][Next]_vars

----------------------------------------------------------------------------
(* Properties of the backoff *)

\* cur is 1.2 times prev truncated to whole nanoseconds:
\* 5 * cur <= 6 * prev <= 5 * cur + 4, compared limb by limb
IsOnePointTwoTimes(prev, cur) ==
    LET dMs == 6 * prev.ms - 5 * cur.ms
    IN  /\ dMs \in -10..10
        /\ (dMs * NsPerMs + 6 * prev.ns - 5 * cur.ns) \in 0..4

\* 1.2 times prev is at least the cap of 100 s: 6 * prev >= 5 * cap
ReachesCap(prev) ==
    LET dMs == 6 * prev.ms - 5 * 1000 * MaxBackoffSeconds
    IN  dMs >= 0 \/ (dMs >= -10 /\ dMs * NsPerMs + 6 * prev.ns >= 0)

\* the backoff sleep that follows the backoff sleep prev in a run of empty
\* cycles, for prev of at least 500 ms
IsNextBackoff(prev, cur) ==
    IF ReachesCap(prev) THEN cur = Second(MaxBackoffSeconds)
    ELSE IsOnePointTwoTimes(prev, cur)

\* C1, as stated: over a run of consecutive empty cycles that starts with
\* currentDelay = 0 the backoff sleeps are 0 ms, 500 ms, 600 ms, ...: the
\* first empty cycle sleeps 0, the second 500 ms, every later one 1.2 times
\* the one before it, capped at 100000 ms.
C1_SequenceFrom500 ==
    /\ emptyRun = 1 => backoffs = << Zero >>
    /\ emptyRun = 2 => backoffs = << Zero, Millisecond(500) >>
    /\ emptyRun = 3 /\ backoffs[1] = Millisecond(500)
          => backoffs[2] = Millisecond(600)
    /\ emptyRun >= 3 /\ backoffs[1] # Millisecond(500)
          => IsNextBackoff(backoffs[1], backoffs[2])

\* C1, amended: over a run of consecutive empty cycles that starts with
\* currentDelay = 0 the backoff sleeps are 0 ms, 600 ms, 720 ms, 864 ms, ...:
\* the first empty cycle sleeps 0, the second 600 ms (the floor of 500 ms is
\* multiplied by 1.2 at once), every later one 1.2 times the one before it
\* (truncated to whole nanoseconds), capped at 100000 ms.
C1_SequenceFrom600 ==
    /\ emptyRun = 1 => backoffs = << Zero >>
    /\ emptyRun = 2 => backoffs = << Zero, Millisecond(600) >>
    /\ emptyRun >= 3 => /\ Len(backoffs) = 2
                        /\ ~DurLess(backoffs[1], Millisecond(600))
                        /\ IsNextBackoff(backoffs[1], backoffs[2])

\* a run of empty cycles long enough for the sleep to grow from below the cap
\* to the cap
C1_ReachedCap ==
    /\ pc = "sleep"
    /\ emptyRun >= 3
    /\ Len(backoffs) = 2
    /\ DurLess(backoffs[1], Second(MaxBackoffSeconds))
    /\ backoffs[2] = Second(MaxBackoffSeconds)

\* C2: at the end of a cycle whose ranked list is non-empty currentDelay is
\* 0, whatever it was when the cycle began, and the first empty cycle of a
\* run (the one that follows a non-empty cycle) sleeps a backoff of 0.
C2_ResetByNonEmptyCycle ==
    /\ pc = "sleep" /\ avail # <<>> => noNetExtra_sleep = Zero
    /\ pc = "sleep" /\ avail = <<>> /\ emptyRun = 1
          => slept = << Zero >> /\ cycleStartDelay = Zero

\* a non-empty cycle that began with a grown delay has reset it
C2_ResetFromGrownDelay ==
    /\ pc = "sleep"
    /\ avail # <<>>
    /\ ~DurLess(cycleStartDelay, Second(1))
    /\ noNetExtra_sleep = Zero

\* C3: currentDelay is 0 or within [500 ms, 100 s]; over consecutive empty
\* cycles neither the delay nor the backoff slept decreases, and a delay of
\* 100 s stays at 100 s until a non-empty cycle resets it.
C3_DelayRange ==
    /\ \/ noNetExtra_sleep = Zero
       \/ /\ ~DurLess(noNetExtra_sleep, Millisecond(500))
          /\ ~DurLess(Second(100), noNetExtra_sleep)
    /\ noNetExtra_sleep.ns \in 0..(NsPerMs - 1)
    /\ Len(backoffs) = 2 => ~DurLess(backoffs[2], backoffs[1])
    /\ pc # "scan" /\ avail = <<>>
          => /\ ~DurLess(noNetExtra_sleep, cycleStartDelay)
             /\ (pc = "sleep" => ~DurLess(noNetExtra_sleep, slept[1]))
             /\ (cycleStartDelay = Second(100) => noNetExtra_sleep = Second(100))

\* an empty cycle that began with the delay at 100 s and left it there
C3_StaysAtCap ==
    /\ pc = "sleep"
    /\ avail = <<>>
    /\ cycleStartDelay = Second(100)
    /\ slept = << Second(100) >>
    /\ noNetExtra_sleep = Second(100)

\* C4: a cycle whose ranked list is empty (a failed scan included) makes no
\* priority write and no activation call.
C4_EmptyCycleWritesNothing ==
    pc \in {"connect", "backoff", "sleep"} /\
            (avail = <<>> \/ <<"scan", 0, 0>> \in faults)
        => /\ avail = <<>>
           /\ pc # "connect"
           /\ writes = <<>>
           /\ activations = <<>>

\* an empty cycle caused by a failed scan, after a cycle that wrote priorities
C4_FailedScanCycle ==
    /\ pc = "sleep"
    /\ <<"scan", 0, 0>> \in faults
    /\ avail = <<>>
    /\ \E p \in Profiles : priority[p] # 0

----------------------------------------------------------------------------
(* Properties of the ranking *)

\* the ranked list is in avail from the sort to the end of the cycle
Ranked == pc \in {"prio", "connect", "backoff", "sleep"}

\* SSIDs of the saved wireless profiles that have a timestamp
SavedKnownSsids ==
    { ProfileSsid(p) : p \in { q \in Profiles : /\ ProfileType(q) = "802-11-wireless"
                                                 /\ ProfileHasTimestamp(q) } }

\* C5: every observation whose SSID is in the known set (SSIDs of saved
\* wireless profiles with a timestamp) is ranked before every observation
\* whose SSID is not, whatever their signal strengths and band scores.
C5_KnownFirst ==
    Ranked =>
        /\ known \subseteq SavedKnownSsids
        /\ faults = {} => known = SavedKnownSsids
        /\ \A i \in 1..Len(avail) : avail[i].isKnown <=> avail[i].ssid \in known
        /\ \A i, j \in 1..Len(avail) :
              avail[i].ssid \in known /\ avail[j].ssid \notin known => i < j

\* a known observation ranked before an unknown one of greater signal
\* strength and greater band score
C5_KnownWeakBeforeUnknownStrong ==
    /\ Ranked
    /\ \E i, j \in 1..Len(avail) :
          /\ i < j
          /\ avail[i].ssid \in known
          /\ avail[j].ssid \notin known
          /\ avail[i].strength < avail[j].strength
          /\ getFrequencyPriority(avail[i].ssid) < getFrequencyPriority(avail[j].ssid)

\* C6: of two ranked observations with the same isKnown and different signal
\* strengths the stronger one comes first, whatever their band scores.
C6_StrongerFirst ==
    Ranked =>
        \A i, j \in 1..Len(avail) :
            /\ avail[i].isKnown = avail[j].isKnown
            /\ avail[i].strength > avail[j].strength
            => i < j

\* two known observations, the stronger one first although its band score is
\* the smaller one
C6_StrongerBeforeBetterBand ==
    /\ Ranked
    /\ \E i, j \in 1..Len(avail) :
          /\ i < j
          /\ avail[i].isKnown /\ avail[j].isKnown
          /\ avail[i].strength > avail[j].strength
          /\ getFrequencyPriority(avail[i].ssid) < getFrequencyPriority(avail[j].ssid)

\* every letter paired with itself in the other case
LetterPairs == { {UpperAlphabet[i], LowerAlphabet[i]} : i \in 1..Len(UpperAlphabet) }

\* c and d are the same letter in either case, or the same character
SameFolded(c, d) == c = d \/ {c, d} \in LetterPairs

\* s contains pat, case-insensitively
ContainsFolded(s, pat) ==
    \E off \in 0..(Len(s) - Len(pat)) :
        \A k \in 1..Len(pat) : SameFolded(s[off + k], pat[k])

\* the band table of the specification, first match first
TableBand(s) ==
    CASE ContainsFolded(s, <<"6","g","h","z">>) \/ ContainsFolded(s, <<"6","g">>) -> 60
      [] ContainsFolded(s, <<"5","g","h","z">>) \/ ContainsFolded(s, <<"5","g">>) -> 50
      [] \/ ContainsFolded(s, <<"2",".","4","g","h","z">>)
         \/ ContainsFolded(s, <<"2","g","h","z">>)
         \/ ContainsFolded(s, <<"2","g">>) -> 24
      [] OTHER -> 0

\* network names that exercise every row of the table
BandSamples ==
    { <<"W","6","G","H","z">>, <<"6","g">>, <<"a","5","G","H","Z">>,
      <<"5","g","x">>, <<"2",".","4","G","H","z">>, <<"2","g","h","z">>,
      <<"L","2","G">>, <<"2",".","4">>, <<"g","5">>, <<"2","G","5","g">>,
      <<"2","g","6","G">>, <<"G","H","z">> }

\* getFrequencyPriority gives the table's score for every sample name
TableHoldsOnSamples == \A s \in BandSamples : getFrequencyPriority(s) = TableBand(s)

\* C7: the band score is the table's, matched case-insensitively, first
\* match first (6ghz/6g 60, 5ghz/5g 50, 2.4ghz/2ghz/2g 24, else 0), and it
\* orders two observations only when their isKnown and signal strength are
\* equal: then the higher band score comes first.
C7_BandTieBreak ==
    /\ TableHoldsOnSamples
    /\ Ranked =>
        /\ \A i \in 1..Len(avail) :
              getFrequencyPriority(avail[i].ssid) = TableBand(avail[i].ssid)
        /\ \A i, j \in 1..Len(avail) :
              /\ avail[i].isKnown = avail[j].isKnown
              /\ avail[i].strength = avail[j].strength
              /\ TableBand(avail[i].ssid) > TableBand(avail[j].ssid)
              => i < j
        /\ \A i, j \in 1..Len(avail) :
              i < j /\ TableBand(avail[i].ssid) < TableBand(avail[j].ssid)
              => \/ avail[i].isKnown /\ ~avail[j].isKnown
                 \/ /\ avail[i].isKnown = avail[j].isKnown
                    /\ avail[i].strength > avail[j].strength

\* two observations of equal isKnown and signal strength, the one whose name
\* holds "5G" before "6g" (score 60) ranked before the one of score 24
C7_BandDecides ==
    /\ Ranked
    /\ \E i, j \in 1..Len(avail) :
          /\ i < j
          /\ avail[i].isKnown = avail[j].isKnown
          /\ avail[i].strength = avail[j].strength
          /\ avail[i].ssid = Ssid5G6g
          /\ getFrequencyPriority(avail[i].ssid) = 60
          /\ getFrequencyPriority(avail[j].ssid) = 24

\* a and b are not distinguished by the three keys of the ranking
SameKeys(a, b) ==
    /\ a.isKnown = b.isKnown
    /\ a.strength = b.strength
    /\ getFrequencyPriority(a.ssid) = getFrequencyPriority(b.ssid)

\* out is input reordered so that entries with the same keys keep their
\* input order
KeepsInputOrder(out, input) ==
    /\ Len(out) = Len(input)
    /\ \E f \in [1..Len(input) -> 1..Len(input)] :
          /\ \A i, j \in 1..Len(input) : i # j => f[i] # f[j]
          /\ \A i \in 1..Len(input) : out[i] = input[f[i]]
          /\ \A i, j \in 1..Len(input) :
                i < j /\ SameKeys(out[i], out[j]) => f[i] < f[j]

\* C8: the ranking is a stable sort: observations with equal isKnown, signal
\* strength and band score keep the relative order of the input list.
C8_StableRanking ==
    pc = "prio" => KeepsInputOrder(avail, markKnown(scanned, known))

----------------------------------------------------------------------------
(* Properties of the priority reconciliation *)

\* the set-priorities loop of this cycle has run
Reconciled == pc \in {"connect", "backoff", "sleep"}

\* the saved wireless profiles with the given SSID
WirelessProfilesOf(ssid) ==
    { p \in Profiles : ProfileType(p) = "802-11-wireless" /\ ProfileSsid(p) = ssid }

\* C9: over a ranked list of length N every write for the entry at 0-based
\* index i carries (N - i) + 10, so the values decrease strictly with the
\* rank from N + 10 down to 11, and every saved profile returned for the
\* entry's SSID is written with that value.
C9_PriorityByRank ==
    Reconciled =>
        LET N == Len(avail) IN
        /\ \A k \in 1..Len(writes) :
              /\ writes[k].entry \in 0..(N - 1)
              /\ writes[k].priority = (N - writes[k].entry) + 10
              /\ writes[k].priority \in 11..(N + 10)
              /\ writes[k].path \in WirelessProfilesOf(avail[writes[k].entry + 1].ssid)
        /\ \A k, l \in 1..Len(writes) :
              /\ k < l => writes[k].entry <= writes[l].entry
              /\ writes[k].entry < writes[l].entry
                    => writes[k].priority > writes[l].priority
              /\ writes[k].entry = N - 1 => writes[k].priority = 11
              /\ writes[k].entry = 0 => writes[k].priority = N + 10
        /\ \A i \in 0..(N - 1) : \A p \in WirelessProfilesOf(avail[i + 1].ssid) :
              <<"bus", i, 0>> \notin faults /\ <<"read", i, p>> \notin faults
              => \E k \in 1..Len(writes) :
                    /\ writes[k].entry = i
                    /\ writes[k].path = p
                    /\ writes[k].priority = (N - i) + 10
                    /\ writes[k].ok <=> <<"write", i, p>> \notin faults
                    /\ writes[k].ok /\ (\A l \in (k + 1)..Len(writes) :
                                           writes[l].path # p \/ ~writes[l].ok)
                          => priority[p] = (N - i) + 10

\* a pass over three entries that wrote 13 to both profiles of the first
\* entry's SSID, 12 for the second entry and 11 for the third
C9_ThirteenTwelveEleven ==
    /\ Reconciled
    /\ Len(avail) = 3
    /\ \E a, b, c, d \in 1..Len(writes) :
          /\ writes[a].entry = 0 /\ writes[a].priority = 13
          /\ writes[b].entry = 0 /\ writes[b].priority = 13
          /\ writes[a].path # writes[b].path
          /\ writes[c].entry = 1 /\ writes[c].priority = 12
          /\ writes[d].entry = 2 /\ writes[d].priority = 11

\* C10: running the reconcile step again on the same ranked list and the same
\* saved profiles, all writes succeeding, leaves every profile's persisted
\* priority as the first run left it.
C10_ReconcileIdempotent ==
    Reconciled /\ faults = {} =>
        setPriorities(avail, 0, passState(saved, priority), {}).priority = priority

\* a pass without failures over a list that holds one SSID at two ranks, which
\* changed the persisted priorities
C10_RepeatedSsidPass ==
    /\ pc = "connect"
    /\ faults = {}
    /\ \E i, j \in 1..Len(avail) :
          /\ i < j
          /\ avail[i].ssid = avail[j].ssid
          /\ \E p \in WirelessProfilesOf(avail[i].ssid) :
                priority[p] = (Len(avail) - (j - 1)) + 10
    /\ \E p, q \in Profiles : priority[p] > 0 /\ priority[q] > priority[p]

\* the saved wireless profiles of the SSIDs of the ranked list
RankedProfiles == UNION { WirelessProfilesOf(avail[i].ssid) : i \in 1..Len(avail) }

\* C11: after a reconcile pass in which every write succeeded, every saved
\* profile of the top-ranked SSID holds a persisted priority strictly greater
\* than that of every saved profile of every other SSID of the ranked list,
\* also when an SSID occurs more than once in the list.
C11_TopSsidHighest ==
    Reconciled /\ faults = {} /\ avail # <<>> =>
        \A p \in WirelessProfilesOf(avail[1].ssid) :
            \A q \in RankedProfiles \ WirelessProfilesOf(avail[1].ssid) :
                priority[p] > priority[q]

----------------------------------------------------------------------------
(* Properties of the cycle *)

\* C12: every cycle begins with a scan request, made before the known set,
\* the visible access points and the current SSID are read.
C12_ScanRequestedFirst ==
    pc \in {"prio", "connect", "backoff", "sleep"} =>
        calls = << "RequestScan", "getKnownNetworks", "getWifiNetworks",
                   "getCurrentConnection" >>

\* C13: no failure of an external call ends the process: whatever fails, the
\* program stays inside its loop.
C13_NoFailureIsFatal ==
    pc \in {"scan", "prio", "connect", "backoff", "sleep"}

\* C14: at the end of a cycle, activation calls were made if and only if the
\* ranked list is non-empty, its first SSID differs from the current SSID
\* read, the lookup of saved profiles for it returned at least one path and
\* a wireless device saw an access point with that SSID; every call passes
\* the first path returned, a device that saw the SSID, and an access point
\* with the best SSID; none is made when best equals the current SSID.
C14_ActivationCondition ==
    pc = "sleep" =>
        /\ activations # <<>> <=> /\ avail # <<>>
                                  /\ avail[1].ssid # current
                                  /\ looked # <<>>
                                  /\ seen # {}
        /\ \A k \in 1..Len(activations) :
              /\ activations[k].conn = looked[1]
              /\ activations[k].conn \in WirelessProfilesOf(avail[1].ssid)
              /\ \A p \in WirelessProfilesOf(avail[1].ssid) :
                    p < activations[k].conn => <<"lookup", 0, p>> \in faults
              /\ activations[k].ap = avail[1].ssid
              /\ activations[k].device \in seen
        /\ avail # <<>> /\ avail[1].ssid = current => activations = <<>>

\* a cycle that activated the first of the two saved profiles of the best SSID
C14_FirstOfTwoProfiles ==
    /\ pc = "sleep"
    /\ Len(looked) = 2
    /\ activations # <<>>
    /\ activations[1].conn = looked[1]
    /\ looked[1] # looked[2]
    /\ avail[1].ssid # current

\* C15: at most one activation call is made per cycle, however many wireless
\* devices see the best SSID.
C15_AtMostOneActivation == Len(activations) <= 1

\* C16, as stated: a cycle with a non-empty ranked list sleeps the fixed
\* interval and nothing else; a cycle with an empty ranked list sleeps the
\* delay it began with and nothing else.
C16_SleepByOutcome ==
    pc = "scan" /\ slept # <<>> =>
        IF emptyRun = 0 THEN slept = << LoopInterval >>
        ELSE slept = << backoffs[Len(backoffs)] >>

\* C16, amended: a cycle with a non-empty ranked list sleeps the fixed
\* interval of 30 s and nothing else; a cycle with an empty ranked list
\* sleeps the delay it began with (the growth is applied after that sleep)
\* and then the fixed interval of 30 s as well.
C16_SleepByOutcomePlusInterval ==
    /\ pc = "sleep" =>
          IF avail # <<>> THEN slept = <<>>
          ELSE /\ slept = << cycleStartDelay >>
               /\ ~DurLess(noNetExtra_sleep, Millisecond(600))
    /\ pc = "scan" /\ slept # <<>> =>
          IF emptyRun = 0 THEN slept = << Second(30) >>
          ELSE slept = << backoffs[Len(backoffs)], Second(30) >>

\* an empty cycle that has slept a grown delay and the fixed interval
C16_BackoffThenInterval ==
    /\ pc = "scan"
    /\ emptyRun >= 2
    /\ Len(slept) = 2
    /\ ~DurLess(slept[1], Millisecond(600))
    /\ slept[2] = LoopInterval

\* no settings came back without the ssid field in this cycle
NoSsidFault(F) == \A f \in F : f[1] \notin {"nossid", "nossidlookup"}

\* C17: in a set-priorities pass a write that fails leaves the persisted
\* priority of its profile as it was (unless another write of the pass
\* succeeds on it), every path of every entry whose lookup returned it is
\* still tried, a write that succeeds and is the last to succeed on its
\* profile decides the profile's priority, and the pass goes on to the
\* activation step.
C17_FailedWriteSkipsOnlyItself ==
    [][pc = "prio" /\ NoSsidFault(faults') =>
         /\ \A p \in Profiles :
               (\A k \in 1..Len(writes') : writes'[k].path = p => ~writes'[k].ok)
               => priority'[p] = priority[p]
         /\ \A i \in 0..(Len(avail) - 1) :
               \A p \in WirelessProfilesOf(avail[i + 1].ssid) :
                  <<"bus", i, 0>> \notin faults' /\ <<"read", i, p>> \notin faults'
                  => \E k \in 1..Len(writes') :
                        /\ writes'[k].entry = i
                        /\ writes'[k].path = p
                        /\ writes'[k].ok <=> <<"write", i, p>> \notin faults'
         /\ \A k \in 1..Len(writes') :
               writes'[k].ok /\ (\A l \in (k + 1)..Len(writes') :
                                    writes'[l].path # writes'[k].path \/ ~writes'[l].ok)
               => priority'[writes'[k].path] = writes'[k].priority
         /\ avail # <<>> => pc' = "connect"
      ]_vars

\* a cycle in which the write to one profile failed, a later write of the
\* pass succeeded and an activation call was made
C17_FailedThenWrittenThenActivated ==
    /\ pc = "sleep"
    /\ activations # <<>>
    /\ \E k, l \in 1..Len(writes) :
          /\ k < l
          /\ ~writes[k].ok
          /\ writes[l].ok
          /\ priority[writes[k].path] # writes[k].priority
          /\ priority[writes[l].path] = writes[l].priority

\* C18: the saved profiles stay the ones that were there when the program
\* started, each with every property other than the autoconnect-priority as
\* it was; a priority changes only in the set-priorities pass, and a profile
\* whose SSID is not in the ranked list is neither written nor changed.
C18_OnlyPriorityWritten ==
    [][/\ saved = SavedAtStart
       /\ saved' = saved
       /\ DOMAIN priority' = Profiles
       /\ pc # "prio" => priority' = priority
       /\ pc = "prio" =>
             \A p \in Profiles \ RankedProfiles :
                /\ priority'[p] = priority[p]
                /\ \A k \in 1..Len(writes') : writes'[k].path # p
      ]_vars

\* a pass that wrote the profiles of the ranked SSID while the profile of
\* another saved network, written in an earlier cycle, is not in the list
C18_UnlistedProfileLeftAlone ==
    /\ pc = "connect"
    /\ \E k \in 1..Len(writes) : writes[k].ok
    /\ \E p \in Profiles \ RankedProfiles :
          /\ ProfileType(p) = "802-11-wireless"
          /\ priority[p] > 0
    /\ saved = SavedAtStart

\* the frequencies the access points report
Frequencies == { k.frequency : k \in APKinds \cup MeshKinds }

\* every observation the scans can return, marked either way
Observations ==
    { [ssid |-> k.ssid, frequency |-> k.frequency, strength |-> k.strength,
       isKnown |-> b] : k \in APKinds \cup MeshKinds, b \in BOOLEAN }

\* less gives the same answer on every two observations whatever frequencies
\* are put in place of theirs
LessIgnoresFrequency ==
    \A a, b \in Observations : \A f, g \in Frequencies :
        less([a EXCEPT !.frequency = f], [b EXCEPT !.frequency = g]) = less(a, b)

\* C19: the ranking comparison does not depend on the frequency: changing
\* only the frequencies of two observations never changes which of the two
\* the comparison places first.
C19_FrequencyBlind ==
    /\ LessIgnoresFrequency
    /\ pc = "prio" =>
          \A i, j \in 1..Len(avail) :
             less([avail[i] EXCEPT !.frequency = avail[j].frequency],
                  [avail[j] EXCEPT !.frequency = avail[i].frequency])
                = less(avail[i], avail[j])

\* two ranked observations that differ in the frequency only
C19_SameButFrequency ==
    /\ pc = "prio"
    /\ \E i, j \in 1..Len(avail) :
          /\ avail[i].frequency < avail[j].frequency
          /\ avail[i].ssid = avail[j].ssid
          /\ avail[i].strength = avail[j].strength
          /\ ~less(avail[i], avail[j]) /\ ~less(avail[j], avail[i])

\* C20: the steps of a cycle follow one another in one order (reads and
\* ranking, the whole set-priorities pass, the activation step or the
\* backoff, the sleep), the next cycle's reads start only after the sleep,
\* priorities are written only in the pass and before any activation call
\* and any sleep of the cycle, and activation calls are made only in the
\* activation step, before the sleep.
C20_CycleOrder ==
    [][/\ pc = "scan" => /\ pc' \in {"prio", "panic"}
                         /\ slept = <<>> \/ slept[Len(slept)] = LoopInterval
       /\ pc = "prio" => pc' \in {IF avail # <<>> THEN "connect" ELSE "backoff",
                                  "panic"}
       /\ pc = "connect" => pc' \in {"sleep", "panic"}
       /\ pc = "backoff" => pc' = "sleep"
       /\ pc = "sleep" => pc' = "scan" /\ slept'[Len(slept')] = LoopInterval
       /\ pc = "panic" => pc' = "panic"
       /\ priority' # priority \/ (writes' # writes /\ writes' # <<>>)
             => pc = "prio" /\ activations = <<>> /\ slept = <<>>
       /\ activations' # activations /\ activations' # <<>>
             => pc = "connect" /\ slept = <<>> /\ pc' = "sleep"
       /\ known' # known \/ avail' # avail \/ current' # current
             => pc \in {"scan", "sleep"}
      ]_vars

\* a cycle that has written priorities and made an activation call and has
\* not slept yet
C20_WrittenActivatedNotSlept ==
    /\ pc = "sleep"
    /\ writes # <<>>
    /\ activations # <<>>
    /\ slept = <<>>

====
